---- MODULE Spec2Model ----
(***************************************************************************)
(* The moving-average-cross backtest of streamlit_app.py: the "Get Trading *)
(* Strategy" handler (lines 143-194) and the strategy MovingAverageCross   *)
(* (lines 76-101) that cerebro.run() drives bar by bar.                    *)
(*                                                                         *)
(* A browser session runs the script top to bottom on every click.  What   *)
(* outlives a script run is st.session_state.messages (per session) and    *)
(* the file temp_stock_data.csv (one file in the working directory of the  *)
(* server, whatever the session).                                          *)
(*                                                                         *)
(* Behaviour of the libraries the script calls, as modelled here:          *)
(*  - cerebro.run() (preload and runonce, the defaults) opens and reads    *)
(*    the CSV when it is called, then computes both averages over the      *)
(*    whole buffer; the 30-bar average writes its first value at index 29  *)
(*    of a buffer as long as the data, which raises IndexError when the    *)
(*    data has fewer than 30 rows;                                         *)
(*  - next() is first called on bar 30 (the strategy's minimum period);    *)
(*  - buy()/sell() create a market order of one share (the default sizer)  *)
(*    that the broker fills when the NEXT bar is delivered, before next()  *)
(*    runs on that bar; an order created on the last bar is never filled;  *)
(*  - the broker starts with cash 10000 and rejects a buy it cannot pay:   *)
(*    the closes modelled here are far below that, so no order is          *)
(*    rejected, and cash is not a variable of the model.                   *)
(*                                                                         *)
(* A row of price data is [date, close]: the date is the index of the      *)
(* trading day counted from the start date, the other CSV columns are      *)
(* never read by the strategy.  A message "BUY on <date> at <close>" is    *)
(* the record [action, date, close].  A missing 'messages' key reads as    *)
(* the empty list (lines 86-87 and 182 treat both alike).                  *)
(***************************************************************************)
EXTENDS Integers, Sequences, FiniteSets, TLC

ShortPeriod == 15
LongPeriod == 30

\* Longest price series a request can return.
MaxBars == 40
\* Clicks of "Get Trading Strategy" per session.
MaxRuns == 2

Closes == {1, 3}
Slopes == {1, 2}
Sessions == {1, 2}
MainSessions == {1}

VARIABLES
    pc,            \* per session: where the script run stands
    runs,          \* per session: clicks so far
    stock_data,    \* per session: the rows fetch_stock_data returned (line 149)
    temp_file,     \* the rows in temp_stock_data.csv (line 161)
    data,          \* per session: the rows cerebro loaded from the CSV
    bar,           \* per session: number of bars delivered so far
    position,      \* per session: the broker's position [size, date]
    orders,        \* per session: orders created and not yet filled
    messages,      \* per session: st.session_state.messages
    reported,      \* per session: the messages written to the sidebar
    err,           \* per session: the exception that ended the script run
    logMark,       \* per session: Len(messages) when the current run began
    repeat,        \* per session: this request returned the rows of the previous one
    prevReported,  \* per session: the sidebar of the previous script run
    prevSize       \* per session: the final position size of the previous run

vars == <<pc, runs, stock_data, temp_file, data, bar, position, orders,
          messages, reported, err, logMark, repeat, prevReported, prevSize>>

----------------------------------------------------------------------------
(* Price series the upstream provider can return. *)

Row(i, c) == [date |-> i, close |-> c]

NBlocks == (MaxBars + ShortPeriod - 1) \div ShortPeriod

\* Closes constant over stretches of ShortPeriod bars.
BlockSeries(lengths) ==
    { [i \in 1..n |-> Row(i, lv[((i - 1) \div ShortPeriod) + 1])] :
        n \in lengths, lv \in [1..NBlocks -> Closes] }

\* Closes rising linearly.
LinearSeries(lengths) ==
    { [i \in 1..n |-> Row(i, k * i)] : n \in lengths, k \in Slopes }

PriceSeries == BlockSeries(0..MaxBars) \cup LinearSeries(0..MaxBars)

ConcSeries == BlockSeries({0, ShortPeriod, LongPeriod})

----------------------------------------------------------------------------
(* The strategy and the broker. *)

RECURSIVE SumCloses(_, _, _)
SumCloses(rows, lo, hi) ==
    IF lo > hi THEN 0 ELSE rows[hi].close + SumCloses(rows, lo, hi - 1)

\* The comparison of line 91 written with >= : equal averages count as above.
ShortAboveOrEqual(rows, t) ==
    SumCloses(rows, t - ShortPeriod + 1, t) * LongPeriod
        >= SumCloses(rows, t - LongPeriod + 1, t) * ShortPeriod

\* ma_short[0] > ma_long[0] at bar t: the two means compared exactly, each
\* being the sum of its window over its period.
ShortAbove(rows, t) ==
    SumCloses(rows, t - ShortPeriod + 1, t) * LongPeriod
        > SumCloses(rows, t - LongPeriod + 1, t) * ShortPeriod

\* ma_short[0] < ma_long[0] at bar t.
ShortBelow(rows, t) ==
    SumCloses(rows, t - ShortPeriod + 1, t) * LongPeriod
        < SumCloses(rows, t - LongPeriod + 1, t) * ShortPeriod

Flat == [size |-> 0, date |-> 0]

Message(action, row) == [action |-> action, date |-> row.date, close |-> row.close]

\* A strategy that buys only when the short average has crossed the long one
\* since the preceding bar.
NextOnCross(rows, t, pos, msgs) ==
    IF ShortAbove(rows, t) /\ t > LongPeriod /\ ShortBelow(rows, t - 1)
    THEN IF pos.size = 0
         THEN [messages |-> Append(msgs, Message("BUY", rows[t])), orders |-> <<"buy">>]
         ELSE [messages |-> msgs, orders |-> <<>>]
    ELSE IF ShortBelow(rows, t) /\ pos.size # 0
         THEN [messages |-> Append(msgs, Message("SELL", rows[t])), orders |-> <<"sell">>]
         ELSE [messages |-> msgs, orders |-> <<>>]

\* MovingAverageCross.next on bar t: the messages and the orders it leaves.
StrategyNext(rows, t, pos, msgs) ==
    IF ShortAbove(rows, t)
    THEN IF pos.size = 0
         THEN [messages |-> Append(msgs, Message("BUY", rows[t])), orders |-> <<"buy">>]
         ELSE [messages |-> msgs, orders |-> <<>>]
    ELSE IF ShortBelow(rows, t)
         THEN IF pos.size # 0
              THEN [messages |-> Append(msgs, Message("SELL", rows[t])), orders |-> <<"sell">>]
              ELSE [messages |-> msgs, orders |-> <<>>]
         ELSE [messages |-> msgs, orders |-> <<>>]

\* The broker filling the pending orders when bar t is delivered.
RECURSIVE BrokerFill(_, _, _)
BrokerFill(pos, pending, t) ==
    IF pending = <<>> THEN pos
    ELSE LET size == IF Head(pending) = "buy" THEN pos.size + 1 ELSE pos.size - 1
         IN BrokerFill([size |-> size, date |-> IF size = 0 THEN 0 ELSE t],
                       Tail(pending), t)

\* The handler without its check for an empty result.
IsEmptyNever(df) == FALSE

\* stock_data.empty
IsEmpty(df) == Len(df) = 0

----------------------------------------------------------------------------
(* The script. *)

Init ==
    /\ pc = [s \in Sessions |-> "idle"]
    /\ runs = [s \in Sessions |-> 0]
    /\ stock_data = [s \in Sessions |-> <<>>]
    /\ temp_file = <<>>
    /\ data = [s \in Sessions |-> <<>>]
    /\ bar = [s \in Sessions |-> 0]
    /\ position = [s \in Sessions |-> Flat]
    /\ orders = [s \in Sessions |-> <<>>]
    /\ messages = [s \in Sessions |-> <<>>]
    /\ reported = [s \in Sessions |-> <<>>]
    /\ err = [s \in Sessions |-> "none"]
    /\ logMark = [s \in Sessions |-> 0]
    /\ repeat = [s \in Sessions |-> FALSE]
    /\ prevReported = [s \in Sessions |-> <<>>]
    /\ prevSize = [s \in Sessions |-> 0]

\* The button is clicked: the script reruns from the top, fetches the rows and
\* either warns that there are none or goes on to write them.
Click(s, universe) ==
    /\ pc[s] = "idle"
    /\ runs[s] < MaxRuns
    /\ \E df \in universe :
        /\ stock_data' = [stock_data EXCEPT ![s] = df]
        /\ repeat' = [repeat EXCEPT ![s] = (runs[s] > 0 /\ df = stock_data[s])]
        /\ pc' = [pc EXCEPT ![s] = IF IsEmpty(df) THEN "idle" ELSE "write"]
    /\ runs' = [runs EXCEPT ![s] = @ + 1]
    /\ prevReported' = [prevReported EXCEPT ![s] = reported[s]]
    /\ prevSize' = [prevSize EXCEPT ![s] = position[s].size]
    /\ reported' = [reported EXCEPT ![s] = <<>>]
    /\ err' = [err EXCEPT ![s] = "none"]
    /\ data' = [data EXCEPT ![s] = <<>>]
    /\ bar' = [bar EXCEPT ![s] = 0]
    /\ position' = [position EXCEPT ![s] = Flat]
    /\ orders' = [orders EXCEPT ![s] = <<>>]
    /\ logMark' = [logMark EXCEPT ![s] = Len(messages[s])]
    /\ UNCHANGED <<temp_file, messages>>

\* stock_data.to_csv('temp_stock_data.csv')
WriteCsv(s) ==
    /\ pc[s] = "write"
    /\ temp_file' = stock_data[s]
    /\ pc' = [pc EXCEPT ![s] = "run"]
    /\ UNCHANGED <<runs, stock_data, data, bar, position, orders, messages,
                   reported, err, logMark, repeat, prevReported, prevSize>>

\* cerebro.run() starts: the CSV is read, the averages are computed over the
\* whole buffer, and the bars before the minimum period pass without next().
RunStart(s) ==
    /\ pc[s] = "run"
    /\ data' = [data EXCEPT ![s] = temp_file]
    /\ IF Len(temp_file) < LongPeriod
       THEN /\ err' = [err EXCEPT ![s] = "IndexError"]
            /\ pc' = [pc EXCEPT ![s] = "idle"]
            /\ bar' = bar
       ELSE /\ err' = err
            /\ pc' = [pc EXCEPT ![s] = "bars"]
            /\ bar' = [bar EXCEPT ![s] = LongPeriod - 1]
    /\ UNCHANGED <<runs, stock_data, temp_file, position, orders, messages,
                   reported, logMark, repeat, prevReported, prevSize>>

\* One bar of cerebro's loop: the bar is delivered, the broker fills what is
\* pending, then the strategy's next() runs.
Bar(s) ==
    /\ pc[s] = "bars"
    /\ bar[s] < Len(data[s])
    /\ LET t == bar[s] + 1
           pos == BrokerFill(position[s], orders[s], t)
           out == StrategyNext(data[s], t, pos, messages[s])
       IN /\ bar' = [bar EXCEPT ![s] = t]
          /\ position' = [position EXCEPT ![s] = pos]
          /\ messages' = [messages EXCEPT ![s] = out.messages]
          /\ orders' = [orders EXCEPT ![s] = out.orders]
    /\ UNCHANGED <<pc, runs, stock_data, temp_file, data, reported, err,
                   logMark, repeat, prevReported, prevSize>>

\* cerebro.run() has returned: the messages of the session go to the sidebar.
Report(s) ==
    /\ pc[s] = "bars"
    /\ bar[s] = Len(data[s])
    /\ reported' = [reported EXCEPT ![s] = messages[s]]
    /\ pc' = [pc EXCEPT ![s] = "idle"]
    /\ UNCHANGED <<runs, stock_data, temp_file, data, bar, position, orders,
                   messages, err, logMark, repeat, prevReported, prevSize>>

Next ==
    \E s \in MainSessions :
        \/ Click(s, PriceSeries)
        \/ WriteCsv(s)
        \/ RunStart(s)
        \/ Bar(s)
        \/ Report(s)

Spec == Init /\ [][Next]_vars

\* Two sessions of the same server, their script runs interleaved.
NextConc ==
    \E s \in Sessions :
        \/ Click(s, ConcSeries)
        \/ WriteCsv(s)
        \/ RunStart(s)
        \/ Bar(s)
        \/ Report(s)

SpecConc == Init /\ [][NextConc]_vars

----------------------------------------------------------------------------
(* The claims. *)

\* The messages appended since the current script run began.
RunEvents(s) == SubSeq(messages[s], logMark[s] + 1, Len(messages[s]))

IsConstant(rows) == \A i, j \in 1..Len(rows) : rows[i].close = rows[j].close

IsLinear35(rows) ==
    /\ Len(rows) = 35
    /\ \E k \in Slopes : \A i \in 1..35 : rows[i].close = k * i

\* A run over a 35-bar linear series, begun with an empty log, has returned.
LinearRunDone(s) ==
    /\ pc[s] = "idle"
    /\ runs[s] >= 1
    /\ logMark[s] = 0
    /\ IsLinear35(stock_data[s])

\* C1: a BUY is emitted at bar t only when the short average was below the
\* long one at bar t-1 and is above it at bar t, both defined; in particular
\* never on the first bar on which both averages are defined.
C1_BuyOnlyOnCross ==
    \A s \in Sessions : \A i \in 1..Len(RunEvents(s)) :
        LET ev == RunEvents(s)[i]
        IN ev.action = "BUY" =>
              /\ ev.date > LongPeriod
              /\ ShortBelow(data[s], ev.date - 1)
              /\ ShortAbove(data[s], ev.date)

\* C2: whatever the bars and the runs, the BUY and SELL messages of the log
\* alternate strictly, beginning with a BUY, and the position is flat or one
\* share long.
C2_Alternating ==
    \A s \in Sessions :
        /\ position[s].size \in {0, 1}
        /\ \A i \in 1..Len(messages[s]) :
              messages[s][i].action = IF i % 2 = 1 THEN "BUY" ELSE "SELL"

\* C3: a second run over the rows of the first reports the same signal log
\* and ends in the same position as the first.
C3_Idempotent ==
    \A s \in Sessions :
        (pc[s] = "idle" /\ repeat[s] /\ err[s] = "none") =>
            /\ reported[s] = prevReported[s]
            /\ position[s].size = prevSize[s]

\* C4: under every interleaving of two sessions, a run works on the rows of
\* its own request and its messages are those its own rows produce.
C4_Isolated ==
    \A s \in Sessions :
        pc[s] = "bars" =>
            /\ data[s] = stock_data[s]
            /\ \A i \in 1..Len(RunEvents(s)) :
                  LET ev == RunEvents(s)[i]
                  IN stock_data[s][ev.date].close = ev.close

C6_ShortSeriesNoError ==
    \A s \in Sessions :
        (/\ pc[s] = "idle"
         /\ runs[s] >= 1
         /\ Len(stock_data[s]) >= 1
         /\ Len(stock_data[s]) < LongPeriod) =>
            /\ err[s] = "none"
            /\ RunEvents(s) = <<>>
            /\ position[s] = Flat

\* C7: over a series of one constant close, longer than both windows, the two
\* averages are equal on every bar where they are defined, no BUY or SELL is
\* emitted, no order is created, and the position stays FLAT to the end.
C7_ConstantNoSignal ==
    \A s \in Sessions :
        (/\ pc[s] \in {"bars", "idle"}
         /\ Len(data[s]) > LongPeriod
         /\ IsConstant(data[s])) =>
            /\ \A t \in LongPeriod..bar[s] :
                  ~ShortAbove(data[s], t) /\ ~ShortBelow(data[s], t)
            /\ RunEvents(s) = <<>>
            /\ orders[s] = <<>>
            /\ position[s] = Flat
            /\ err[s] = "none"
            /\ (pc[s] = "idle" => reported[s] = messages[s])

C7_Witness ==
    \E s \in Sessions :
        /\ pc[s] = "idle"
        /\ Len(data[s]) = MaxBars
        /\ bar[s] = Len(data[s])
        /\ IsConstant(data[s])

\* C8: a request that returns no bars ends without error, appends nothing to
\* the log, reports no message, and leaves the position FLAT.
C8_EmptyNoError ==
    \A s \in Sessions :
        (pc[s] = "idle" /\ runs[s] >= 1 /\ stock_data[s] = <<>>) =>
            /\ err[s] = "none"
            /\ Len(messages[s]) = logMark[s]
            /\ reported[s] = <<>>
            /\ position[s] = Flat
            /\ orders[s] = <<>>
            /\ bar[s] = 0

C8_Witness ==
    \E s \in Sessions :
        /\ pc[s] = "idle"
        /\ runs[s] = 2
        /\ stock_data[s] = <<>>
        /\ messages[s] # <<>>
        /\ prevReported[s] # <<>>

\* C9: once bar t has been processed, a BUY appended at bar t has made the
\* position LONG, entered on bar t's date, and a SELL appended at bar t has
\* made it FLAT.
C9_FillOnSameBar ==
    \A s \in Sessions :
        (/\ pc[s] = "bars"
         /\ RunEvents(s) # <<>>
         /\ RunEvents(s)[Len(RunEvents(s))].date = bar[s]) =>
            IF RunEvents(s)[Len(RunEvents(s))].action = "BUY"
            THEN position[s] = [size |-> 1, date |-> bar[s]]
            ELSE position[s] = Flat

\* C10: in every reachable state the dates of the messages in the log are
\* strictly increasing in insertion order.
C10_Chronological ==
    \A s \in Sessions : \A i, j \in 1..Len(messages[s]) :
        i < j => messages[s][i].date < messages[s][j].date

====
